---- MODULE Spec2Model ----
(***************************************************************************)
(* State-machine model of rss_monitor.py: one pass of monitor_feeds over   *)
(* the configured feeds, the sqlite tables feeds and articles, the mails   *)
(* handed to send_email and the retention pruner.                          *)
(*                                                                         *)
(* Python values: a str is a sequence of tokens (characters, or one token  *)
(* for an opaque piece such as a URL or the text of a date); None is the   *)
(* reserved one-token sequence None; a datetime is an integer number of    *)
(* days; a feedparser entry is a function whose DOMAIN is the set of keys  *)
(* the entry carries.  The AUTOINCREMENT id column of articles is not      *)
(* modelled: no statement of the program reads it.                         *)
(***************************************************************************)
EXTENDS Integers, Sequences, FiniteSets, TLC

(* ------------------------------ bounds --------------------------------- *)
\* day number of the clock in the initial state
Now0 == 40
\* the clock advances at most this many days
MaxTicks == 1
\* a parse returns at most this many entries
MaxEntries == 2
\* a feed whose failure_count reached ERROR_THRESHOLD + MaxOver parses again
MaxOver == 1
\* outside the health scenario the failure counts of two feeds add up to at
\* most this
MaxStreak == 1
\* a parse that failed carries at most this many entries
MaxBozoEntries == 1
\* in the short scenario a parse returns at most this many entries
MaxShortEntries == 1
\* in the health scenario a parse returns at most this many entries
MaxHealthEntries == 1
\* an argument of matches_filter has at most this many characters
MaxTextLen == 2
\* a field of an argument of get_article_identifier has at most this many
\* characters
MaxFieldLen == 1
\* in the dates scenario a parse returns at most this many entries
MaxDateEntries == 1

(* --------------------------- configuration ----------------------------- *)
Python == <<"p", "y", "t", "h", "o", "n">>
URL_OPENSUSE == "https://news.opensuse.org/feed/"
URL_REDDIT == "https://www.reddit.com/r/python.rss"
RSS_FEEDS == << <<URL_OPENSUSE, <<>> >>, <<URL_REDDIT, Python>> >>
PRUNE_OLDER_THAN_DAYS == 30
ERROR_THRESHOLD == 3

NumFeeds == Len(RSS_FEEDS)
FeedUrls == {RSS_FEEDS[i][1] : i \in 1..NumFeeds}

(* --------------------------- python values ----------------------------- *)
None == <<"<None>">>
EmptyStr == <<>>
\* truth value of a str-or-None
Truthy(v) == v # None /\ v # EmptyStr
\* the python expression (v or d)
OrElse(v, d) == IF Truthy(v) THEN v ELSE d
\* dict.get(key, default)
Get(item, key, default) == IF key \in DOMAIN item THEN item[key] ELSE default

UpperCase == <<"A","B","C","D","E","F","G","H","I","J","K","L","M",
               "N","O","P","Q","R","S","T","U","V","W","X","Y","Z">>
LowerCase == <<"a","b","c","d","e","f","g","h","i","j","k","l","m",
               "n","o","p","q","r","s","t","u","v","w","x","y","z">>
LowerChar(c) ==
    IF \E i \in 1..Len(UpperCase) : UpperCase[i] = c
    THEN LowerCase[CHOOSE i \in 1..Len(UpperCase) : UpperCase[i] = c]
    ELSE c
\* str.lower()
Lower(s) == [i \in 1..Len(s) |-> LowerChar(s[i])]
\* the python expression (needle in hay) on two str
Contains(needle, hay) ==
    \E i \in 0..(Len(hay) - Len(needle)) :
        SubSeq(hay, i + 1, i + Len(needle)) = needle
\* hashlib.sha256(s.encode()).hexdigest(): one digest per input text
sha256hex(s) == <<"sha256:">> \o s

(* ------------------------------ datetime ------------------------------- *)
Days == 0..(Now0 + MaxTicks)
\* the text of each day, as datetime.isoformat() writes it
IsoText == [d \in Days |-> ToString(d)]
\* datetime.isoformat()
isoformat(t) == <<IsoText[t]>>
\* str.replace("Z", "+00:00")
ReplaceZ(s) == [i \in 1..Len(s) |-> IF s[i] = "Z" THEN "+00:00" ELSE s[i]]
\* the texts datetime.fromisoformat accepts: a date, with or without offset
IsIsoFormat(s) ==
    /\ Len(s) \in {1, 2}
    /\ \E d \in Days : s[1] = IsoText[d]
    /\ Len(s) = 2 => s[2] = "+00:00"
\* datetime.fromisoformat() of a text it accepts
fromisoformat(s) == CHOOSE d \in Days : s[1] = IsoText[d]
\* lines 179 and 183 with the epoch in place of datetime.now()
ParsePubDateEpoch(item, t) ==
    LET pub_date == Get(item, "published", Get(item, "pubdate", isoformat(0)))
    IN  IF IsIsoFormat(ReplaceZ(pub_date))
        THEN fromisoformat(ReplaceZ(pub_date))
        ELSE 0

\* lines 179-183: the publication timestamp of an entry seen at time t
ParsePubDate(item, t) ==
    LET pub_date == Get(item, "published", Get(item, "pubdate", isoformat(t)))
    IN  IF IsIsoFormat(ReplaceZ(pub_date))
        THEN fromisoformat(ReplaceZ(pub_date))
        ELSE t

(* ---------------------------- pure functions --------------------------- *)
\* lines 69-72 in the other order: the link before the guid
IdentifierLinkFirst(item) ==
    IF "link" \in DOMAIN item /\ Truthy(item["link"]) THEN item["link"]
    ELSE IF "guid" \in DOMAIN item /\ Truthy(item["guid"]) THEN item["guid"]
    ELSE sha256hex(Get(item, "title", EmptyStr)
                   \o Get(item, "published", Get(item, "pubdate", EmptyStr)))

get_article_identifier(item) ==
    IF "guid" \in DOMAIN item /\ Truthy(item["guid"]) THEN item["guid"]
    ELSE IF "link" \in DOMAIN item /\ Truthy(item["link"]) THEN item["link"]
    ELSE sha256hex(Get(item, "title", EmptyStr)
                   \o Get(item, "published", Get(item, "pubdate", EmptyStr)))

matches_filter(item, fetched_content, filter_keywords) ==
    IF ~Truthy(filter_keywords) THEN TRUE
    ELSE Contains(Lower(filter_keywords),
                  Lower(Get(item, "title", EmptyStr))
                  \o Lower(Get(item, "description", EmptyStr))
                  \o Lower(OrElse(fetched_content, EmptyStr)))

(* ------------------------- the world outside --------------------------- *)
\* plain text of the pages the content extractor can reach
LinkEdge == <<"http://a/1">>
LinkRecent == <<"http://a/2">>
Web == [u \in {LinkEdge, LinkRecent} |->
          IF u = LinkEdge THEN <<"a">> \o Python ELSE <<"w">>]
\* fetch_article_content: ok says whether the GET and the extraction succeed
fetch_article_content(url, ok) ==
    IF ok /\ url \in DOMAIN Web THEN Web[url] ELSE None

\* entries the feeds can list
G1 == <<"g", "1">>
ItemOld == [guid |-> G1, title |-> <<"P","y","t","h","o","n">>,
            description |-> <<"o">>,
            published |-> isoformat(Now0 - PRUNE_OLDER_THAN_DAYS - 1)]
ItemEdge == [guid |-> G1, link |-> LinkEdge, title |-> <<"n">>,
             description |-> <<"e">>,
             published |-> isoformat(Now0 - PRUNE_OLDER_THAN_DAYS) \o <<"Z">>]
ItemRecent == [guid |-> EmptyStr, link |-> LinkRecent, title |-> <<"r">>,
               description |-> <<"c">>,
               published |-> isoformat(Now0 - 1)]
ItemBare == [title |-> <<"P","Y","T","H","O","N">>, pubdate |-> <<"bad">>]
Items == {ItemOld, ItemEdge, ItemBare}
Listings == UNION {[1..n -> Items] : n \in 0..MaxEntries}
\* an entry without publication date
G2 == <<"g", "2">>
ItemUndated == [guid |-> G2, title |-> <<"p","y","t","h","o","n">>]
DateListings ==
    UNION {[1..n -> {ItemUndated, ItemBare, ItemOld}] : n \in 0..MaxDateEntries}
HealthListings == UNION {[1..n -> {ItemBare}] : n \in 0..MaxHealthEntries}

(* ------------------------------- state --------------------------------- *)
VARIABLES
    now,          \* datetime.now(), in days
    pc,           \* position of monitor_feeds: idle, feed, commit, prune
    idx,          \* index in RSS_FEEDS of the feed the loop is at
    feeds,        \* committed table feeds: feed_url -> row
    articles,     \* committed table articles: set of rows
    tx,           \* tables as the open connection sees them before commit
    parsed,       \* what feedparser.parse and the page fetches returned
    outbox,       \* mails handed to send_email in the current feed step
    exc,          \* uncaught exception that ended the last pass, or "none"
    env,          \* what the outside does in this behaviour (never changes)
    notified,     \* history: keys that were listed in an article notification
    interrupted,  \* history: keys notified in a feed step that never committed
    consecFails,  \* history: consecutive failed parses per feed
    trace,        \* history: the steps of the current pass, in order
    completed,    \* history: some pass ran to its end
    call,         \* a call of a pure function: its name and arguments
    ret,          \* <<value>> once the call has returned, else <<>>
    passes,       \* two invocations of monitor_feeds that run side by side
    met           \* history: feeds both invocations were at, one inside its
                  \* transaction

vars == <<now, pc, idx, feeds, articles, tx, parsed, outbox, exc, env,
          notified, interrupted, consecFails, trace, completed,
          call, ret, passes, met>>

\* what a sequential pass leaves alone
apart == <<call, ret, passes, met>>

NoTx == [open |-> FALSE, feeds |-> <<>>, articles |-> {}]
NoParse == [bozo |-> FALSE, entries |-> <<>>, fetchOk |-> <<>>]

(* ------------------------------ the store ------------------------------ *)
\* line 143 with INSERT OR REPLACE in place of INSERT OR IGNORE
InsertOrReplaceFeed(fd, feed_url, t) ==
    [u \in DOMAIN fd \cup {feed_url} |->
        IF u = feed_url THEN [last_checked |-> t, failure_count |-> 0]
        ELSE fd[u]]

\* line 143: INSERT OR IGNORE INTO feeds
InsertOrIgnoreFeed(fd, feed_url, t) ==
    IF feed_url \in DOMAIN fd THEN fd
    ELSE [u \in DOMAIN fd \cup {feed_url} |->
            IF u = feed_url THEN [last_checked |-> t, failure_count |-> 0]
            ELSE fd[u]]

\* lines 142-144 as an upsert that stamps last_checked of the rows it finds
EnsureFeedsTouch(fd, i, t) ==
    [u \in DOMAIN fd \cup FeedUrls |->
        IF u \in DOMAIN fd THEN [fd[u] EXCEPT !.last_checked = t]
        ELSE [last_checked |-> t, failure_count |-> 0]]

RECURSIVE EnsureFeeds(_, _, _)
\* lines 142-144: the loop over RSS_FEEDS, from index i on
EnsureFeeds(fd, i, t) ==
    IF i > NumFeeds THEN fd
    ELSE EnsureFeeds(InsertOrIgnoreFeed(fd, RSS_FEEDS[i][1], t), i + 1, t)

\* line 155: UPDATE feeds SET failure_count = failure_count + 1 WHERE ...
IncrementFailure(fd, feed_url) ==
    [u \in DOMAIN fd |->
        IF u = feed_url
        THEN [fd[u] EXCEPT !.failure_count = fd[u].failure_count + 1]
        ELSE fd[u]]

\* line 165: UPDATE feeds SET failure_count = 0, last_checked = ? WHERE ...
ResetFailure(fd, feed_url, t) ==
    [u \in DOMAIN fd |->
        IF u = feed_url THEN [last_checked |-> t, failure_count |-> 0]
        ELSE fd[u]]

\* line 168 without the WHERE clause: the identifiers of every feed
SeenIdentifiersAllFeeds(ar, feed_url) == {r.identifier : r \in ar}

\* lines 168-169: SELECT identifier FROM articles WHERE feed_url = ?
SeenIdentifiers(ar, feed_url) ==
    {r.identifier : r \in {q \in ar : q.feed_url = feed_url}}

ArticleRow(feed_url, a) ==
    [feed_url |-> feed_url, identifier |-> a[1], title |-> a[2],
     link |-> a[3], description |-> a[4], fetched_content |-> a[5],
     pub_date |-> a[6]]

RECURSIVE InsertAll(_, _, _)
\* lines 192-197: INSERT INTO articles for each new article; the UNIQUE
\* constraint raises IntegrityError and the remaining statements do not run
InsertAll(ar, feed_url, new_articles) ==
    IF new_articles = <<>> THEN [articles |-> ar, exc |-> "none"]
    ELSE IF Head(new_articles)[1] \in SeenIdentifiers(ar, feed_url)
         THEN [articles |-> ar, exc |-> "IntegrityError"]
         ELSE InsertAll(ar \cup {ArticleRow(feed_url, Head(new_articles))},
                        feed_url, Tail(new_articles))

\* line 116 with <= in place of <
DeleteNotNewerThan(ar, cutoff) == {r \in ar : ~(r.pub_date <= cutoff)}

\* line 116: DELETE FROM articles WHERE pub_date < cutoff
DeleteOlderThan(ar, cutoff) == {r \in ar : ~(r.pub_date < cutoff)}

\* lines 112-117
prune_old_articles(ar, t) == DeleteOlderThan(ar, t - PRUNE_OLDER_THAN_DAYS)

(* ------------------------------ one feed ------------------------------- *)
\* the seen set without line 187
SeenAddForgets(seen, identifier) == seen

\* line 187: seen.add(identifier)
SeenAdd(seen, identifier) == seen \cup {identifier}

\* lines 175-183, 186: the tuple appended to new_articles for an item
NewArticle(item, identifier, fetched_content, t) ==
    <<identifier,
      Get(item, "title", <<"No title">>),
      Get(item, "link", <<"No link">>),
      Get(item, "description", <<"No description">>),
      fetched_content,
      ParsePubDate(item, t)>>

\* line 178: the content of an item, ok being the outcome of its page fetch
FetchedContent(item, ok) ==
    IF Truthy(Get(item, "link", <<"No link">>))
    THEN fetch_article_content(Get(item, "link", <<"No link">>), ok)
    ELSE None

RECURSIVE CollectNew(_, _, _, _, _)
RECURSIVE CollectItem(_, _, _, _, _, _, _)
\* lines 174-187: the body of the loop for the first entry, then the rest
CollectItem(entries, fetchOk, seen, filter_keywords, t, identifier,
            fetched_content) ==
    IF identifier \notin seen
       /\ matches_filter(Head(entries), fetched_content, filter_keywords)
    THEN <<NewArticle(Head(entries), identifier, fetched_content, t)>>
         \o CollectNew(Tail(entries), Tail(fetchOk),
                       SeenAdd(seen, identifier), filter_keywords, t)
    ELSE CollectNew(Tail(entries), Tail(fetchOk), seen, filter_keywords, t)

\* lines 171-187: the loop over feed.entries; fetchOk[i] is the outcome of
\* the page fetch for entry i
CollectNew(entries, fetchOk, seen, filter_keywords, t) ==
    IF entries = <<>> THEN <<>>
    ELSE CollectItem(entries, fetchOk, seen, filter_keywords, t,
                     get_article_identifier(Head(entries)),
                     FetchedContent(Head(entries), Head(fetchOk)))

\* line 193 with = in place of +=: the body keeps the last article only
ArticleMailLastOnly(feed_url, new_articles) ==
    [kind |-> "articles", feed_url |-> feed_url,
     ids |-> << new_articles[Len(new_articles)][1] >>,
     body |-> << <<new_articles[Len(new_articles)][2],
                   new_articles[Len(new_articles)][3],
                   OrElse(new_articles[Len(new_articles)][5],
                          new_articles[Len(new_articles)][4])>> >>]

\* lines 190-193, 198: the article notification for a batch
ArticleMail(feed_url, new_articles) ==
    [kind |-> "articles", feed_url |-> feed_url,
     ids |-> [i \in 1..Len(new_articles) |-> new_articles[i][1]],
     body |-> [i \in 1..Len(new_articles) |->
                 <<new_articles[i][2], new_articles[i][3],
                   OrElse(new_articles[i][5], new_articles[i][4])>>]]

\* lines 159-160: the health alert
AlertMail(feed_url, failure_count) ==
    [kind |-> "alert", feed_url |-> feed_url, failure_count |-> failure_count]

\* lines 120-134: the mail is handed to the transport; a transport error
\* is logged and swallowed
send_email(box, mail, ok) ==
    Append(box, [mail |-> mail, delivered |-> ok])

\* line 158 with == in place of >=: an alert on the crossing only
AlertOnCrossing(failure_count) == failure_count = ERROR_THRESHOLD

\* line 158
AlertDue(failure_count) == failure_count >= ERROR_THRESHOLD

\* lines 153-163: the feed.bozo branch
ParseFailed(fd, ar, feed_url, mailOk) ==
    LET fd2 == IncrementFailure(fd, feed_url)
        failure_count == fd2[feed_url].failure_count
    IN  [feeds |-> fd2, articles |-> ar, exc |-> "none",
         mails |-> IF AlertDue(failure_count)
                   THEN send_email(<<>>, AlertMail(feed_url, failure_count), mailOk)
                   ELSE <<>>]

\* lines 189-199: the batch is inserted, then notified; ins is what the
\* inserts of lines 194-197 made of the table
NotifyBatch(fd, ins, feed_url, new_articles, mailOk) ==
    [feeds |-> fd, articles |-> ins.articles, exc |-> ins.exc,
     mails |-> IF new_articles # <<>> /\ ins.exc = "none"
               THEN send_email(<<>>, ArticleMail(feed_url, new_articles), mailOk)
               ELSE <<>>]

\* lines 189-199
PersistBatch(fd, ar, feed_url, new_articles, mailOk) ==
    NotifyBatch(fd, InsertAll(ar, feed_url, new_articles), feed_url,
                new_articles, mailOk)

\* line 185 without the test: every unseen entry is accepted
ParseSucceededUnfiltered(fd, ar, feed_url, filter_keywords, p, t, mailOk) ==
    PersistBatch(ResetFailure(fd, feed_url, t), ar, feed_url,
                 CollectNew(p.entries, p.fetchOk, SeenIdentifiers(ar, feed_url),
                            EmptyStr, t),
                 mailOk)

\* lines 168-197 as an upsert: every listed entry counts as unseen and its
\* row replaces the stored one
ParseSucceededUpsert(fd, ar, feed_url, filter_keywords, p, t, mailOk) ==
    PersistBatch(ResetFailure(fd, feed_url, t),
                 {r \in ar :
                    ~(/\ r.feed_url = feed_url
                      /\ \E i \in 1..Len(p.entries) :
                            r.identifier = get_article_identifier(p.entries[i]))},
                 feed_url,
                 CollectNew(p.entries, p.fetchOk, {}, filter_keywords, t),
                 mailOk)

\* lines 164-199: the branch of a feed that parsed
ParseSucceeded(fd, ar, feed_url, filter_keywords, p, t, mailOk) ==
    PersistBatch(ResetFailure(fd, feed_url, t), ar, feed_url,
                 CollectNew(p.entries, p.fetchOk, SeenIdentifiers(ar, feed_url),
                            filter_keywords, t),
                 mailOk)

\* line 153 testing the entries first: a parse that failed but carries
\* entries is handled as a parse that succeeded
FeedBodyEntriesFirst(fd, ar, i, p, t, mailOk) ==
    IF p.bozo /\ p.entries = <<>>
    THEN ParseFailed(fd, ar, RSS_FEEDS[i][1], mailOk)
    ELSE ParseSucceeded(fd, ar, RSS_FEEDS[i][1], RSS_FEEDS[i][2], p, t, mailOk)

\* lines 151-199: the statements of one iteration inside the connection
FeedBody(fd, ar, i, p, t, mailOk) ==
    IF p.bozo
    THEN ParseFailed(fd, ar, RSS_FEEDS[i][1], mailOk)
    ELSE ParseSucceeded(fd, ar, RSS_FEEDS[i][1], RSS_FEEDS[i][2], p, t, mailOk)

(* ----------------------------- environment ----------------------------- *)
\* env.scenario bounds the feeds: "articles" lets them list up to MaxEntries
\* entries and fail up to MaxStreak times in a row, "short" is the same with
\* up to MaxShortEntries entries, "health" lets them fail until the counter
\* is MaxOver above the threshold and list HealthListings, "dates" lets them
\* list DateListings.
\* env.smtp = "down" makes every dispatch fail.  env.replay makes every
\* parse of feed i return env.results[i].
Env(scenario, smtp) ==
    [scenario |-> scenario, smtp |-> smtp, replay |-> FALSE, results |-> <<>>]

\* outcomes of the page fetches of one parse: a fetch succeeds only for a
\* link the web serves, and a feed that did not parse fetches nothing
FetchOutcomes(bozo, entries) ==
    {o \in [1..Len(entries) -> BOOLEAN] :
        \A i \in 1..Len(entries) :
            o[i] => (~bozo /\ Get(entries[i], "link", <<"No link">>) \in DOMAIN Web)}

\* the failure counter is unbounded in the program; the model stops failing
\* a feed once its streak reached the bound of the scenario
MayFail(fd, i, e) ==
    IF e.scenario = "health"
    THEN fd[RSS_FEEDS[i][1]].failure_count < ERROR_THRESHOLD + MaxOver
    ELSE \A j \in 1..NumFeeds :
            j # i => fd[RSS_FEEDS[i][1]].failure_count
                     + fd[RSS_FEEDS[j][1]].failure_count < MaxStreak

\* line 149: what feedparser.parse can return for feed i
BozoChoices(fd, i, e) ==
    {c \in BOOLEAN : (c => MayFail(fd, i, e))
                     /\ (e.replay => c = e.results[i].bozo)}
EntriesChoices(i, bozo, e) ==
    IF e.replay THEN {e.results[i].entries}
    ELSE IF e.scenario = "health" THEN HealthListings
    ELSE IF e.scenario = "dates" THEN DateListings
    ELSE IF e.scenario = "short" THEN {l \in Listings : Len(l) <= MaxShortEntries}
    ELSE IF bozo THEN {l \in Listings : Len(l) <= MaxBozoEntries}
    ELSE Listings
\* whether the mail transport fails during a feed step
MailFailures(e) == IF e.smtp = "down" THEN {TRUE} ELSE BOOLEAN

\* keys (feed_url, identifier) listed by the article notifications of a box
MailKeys(box) ==
    UNION {{<<box[j].mail.feed_url, box[j].mail.ids[k]>> :
               k \in 1..Len(box[j].mail.ids)} :
           j \in {n \in 1..Len(box) : box[n].mail.kind = "articles"}}

(* ------------------------------- actions ------------------------------- *)
InitWith(e) ==
    /\ now = Now0
    /\ pc = "idle"
    /\ idx = 1
    /\ feeds = <<>>
    /\ articles = {}
    /\ tx = NoTx
    /\ parsed = NoParse
    /\ outbox = <<>>
    /\ exc = "none"
    /\ env = e
    /\ notified = {}
    /\ interrupted = {}
    /\ consecFails = [u \in FeedUrls |-> 0]
    /\ trace = <<>>
    /\ completed = FALSE

\* no pure function is under call
NoCall == call = <<>> /\ ret = <<>>
\* no second invocation runs beside the pass
NoPasses == passes = <<>> /\ met = {}
\* one invocation at a time, as cron starts them
Sequential(e) == InitWith(e) /\ NoCall /\ NoPasses

Init == Sequential(Env("articles", "any"))

\* a day passes between two invocations
Tick ==
    /\ pc = "idle"
    /\ now < Now0 + MaxTicks
    /\ now' = now + 1
    /\ UNCHANGED <<pc, idx, feeds, articles, tx, parsed, outbox, exc, env,
                   notified, interrupted, consecFails, trace, completed>>
    /\ UNCHANGED apart

\* lines 137-145: a pass starts and ensures the feed rows
StartPass ==
    /\ pc = "idle"
    /\ feeds' = EnsureFeeds(feeds, 1, now)
    /\ pc' = "feed"
    /\ idx' = 1
    /\ exc' = "none"
    /\ trace' = <<>>
    /\ UNCHANGED <<now, articles, tx, parsed, outbox, env, notified,
                   interrupted, consecFails, completed>>
    /\ UNCHANGED apart

\* line 163 with return in place of continue
AfterFeedReturnOnFailure(i, bozo) ==
    IF bozo THEN "idle" ELSE IF i < NumFeeds THEN "feed" ELSE "prune"

\* lines 147 and 203: where the loop goes after an iteration, the same after
\* the continue of line 163 and after the commit of line 201
AfterFeed(i, bozo) == IF i < NumFeeds THEN "feed" ELSE "prune"

\* lines 149-199: parse feed idx and run its statements in a connection
ProcessFeed ==
    /\ pc = "feed"
    /\ \E b \in BozoChoices(feeds, idx, env), mailFails \in MailFailures(env) :
       \E e \in EntriesChoices(idx, b, env) :
       \E o \in FetchOutcomes(b, e) :
       \E p \in {[bozo |-> b, entries |-> e, fetchOk |-> o]} :
       \E r \in {FeedBody(feeds, articles, idx, p, now, ~mailFails)} :
             /\ parsed' = p
             /\ outbox' = r.mails
             /\ exc' = r.exc
             /\ IF r.exc = "none"
                THEN /\ tx' = [open |-> TRUE, feeds |-> r.feeds,
                               articles |-> r.articles]
                     /\ pc' = "commit"
                ELSE /\ tx' = NoTx
                     /\ pc' = "idle"
             /\ notified' = notified \cup MailKeys(r.mails)
             /\ trace' = Append(trace, [step |-> "feed", i |-> idx,
                                        bozo |-> p.bozo])
    /\ UNCHANGED <<now, idx, feeds, articles, env, interrupted, consecFails,
                   completed>>
    /\ UNCHANGED apart

\* lines 162 and 201: conn.commit(), then the next iteration
Commit ==
    /\ pc = "commit"
    /\ feeds' = tx.feeds
    /\ articles' = tx.articles
    /\ tx' = NoTx
    /\ pc' = AfterFeed(idx, parsed.bozo)
    /\ idx' = IF pc' = "feed" THEN idx + 1 ELSE idx
    /\ parsed' = NoParse
    /\ outbox' = <<>>
    /\ consecFails' = [consecFails EXCEPT
                         ![RSS_FEEDS[idx][1]] = IF parsed.bozo THEN @ + 1 ELSE 0]
    /\ UNCHANGED <<now, exc, env, notified, interrupted, trace, completed>>
    /\ UNCHANGED apart

\* line 203: the pruner ends the pass
Prune ==
    /\ pc = "prune"
    /\ articles' = prune_old_articles(articles, now)
    /\ pc' = "idle"
    /\ idx' = 1
    /\ trace' = Append(trace, [step |-> "prune", i |-> 0, bozo |-> FALSE])
    /\ completed' = TRUE
    /\ UNCHANGED <<now, feeds, tx, parsed, outbox, exc, env, notified,
                   interrupted, consecFails>>
    /\ UNCHANGED apart

\* the process is killed during a pass: the open connection never commits
Interrupt ==
    /\ pc \in {"feed", "commit", "prune"}
    /\ pc' = "idle"
    /\ idx' = 1
    /\ tx' = NoTx
    /\ parsed' = NoParse
    /\ outbox' = <<>>
    /\ interrupted' = interrupted \cup
                      (IF pc = "commit" THEN MailKeys(outbox) ELSE {})
    /\ trace' = <<>>
    /\ UNCHANGED <<now, feeds, articles, exc, env, notified, consecFails,
                   completed>>
    /\ UNCHANGED apart

Next == Tick \/ StartPass \/ ProcessFeed \/ Commit \/ Prune

\* sequential passes, feeds that list up to MaxEntries entries
Spec == Init /\ [][Next]_vars

\* sequential passes, feeds that fail many times in a row
InitHealth == Sequential(Env("health", "any"))
SpecHealth == InitHealth /\ [][Next]_vars

\* sequential passes while the mail transport is down
InitMailDown == Sequential(Env("articles", "down"))
SpecMailDown == InitMailDown /\ [][Next]_vars

\* passes that an interruption can end early
NextInterrupt == Next \/ Interrupt
InitInterrupt == Sequential(Env("short", "any"))
SpecInterrupt == InitInterrupt /\ [][NextInterrupt]_vars

\* sequential passes, feeds that list entries without a usable date
InitDates == Sequential(Env("dates", "any"))
SpecDates == InitDates /\ [][Next]_vars

\* every feed returns the same parse result in every pass
InitRepeat ==
    \E res \in [1..NumFeeds -> [bozo : BOOLEAN, entries : Listings]] :
        Sequential([scenario |-> "articles", smtp |-> "any", replay |-> TRUE,
                    results |-> res])
SpecRepeat == InitRepeat /\ [][Next]_vars

(* ------------------------- two overlapping passes ---------------------- *)
\* Two invocations of monitor_feeds run side by side on one database file.
\* sqlite gives the write lock to the connection that runs the first UPDATE
\* of an iteration (line 155 or 165) and takes it back at conn.commit(); a
\* connection that needs the lock meanwhile waits, and raises
\* OperationalError when the wait exceeds the timeout of sqlite3.connect.
IdlePass ==
    [pc |-> "idle", idx |-> 1, tx |-> NoTx, mails |-> <<>>,
     inserted |-> {}, mailed |-> {}, exc |-> "none"]

Other(p) == 3 - p
\* the connection of the other invocation holds the write lock
Locked(p) == passes[Other(p)].tx.open
\* the feeds at which one invocation is inside its transaction while the
\* other one is at the iteration of the same feed
Meeting(ps) ==
    {RSS_FEEDS[ps[p].idx][1] :
        p \in {n \in 1..2 : /\ ps[n].tx.open
                             /\ ps[3 - n].pc = "feed"
                             /\ ps[3 - n].idx = ps[n].idx}}

pass_frame ==
    <<now, pc, idx, tx, parsed, outbox, exc, env, notified, interrupted,
      consecFails, trace, completed, call, ret>>

\* the invocation p moves to state ps
PassMoves(p, ps) ==
    /\ passes' = [passes EXCEPT ![p] = ps]
    /\ met' = met \cup Meeting([passes EXCEPT ![p] = ps])

\* lines 137-145
PassStart(p) ==
    /\ passes[p].pc = "idle"
    /\ ~Locked(p)
    /\ feeds' = EnsureFeeds(feeds, 1, now)
    /\ PassMoves(p, [passes[p] EXCEPT !.pc = "feed", !.idx = 1])
    /\ UNCHANGED articles
    /\ UNCHANGED pass_frame

\* lines 149-199
PassProcessFeed(p) ==
    /\ passes[p].pc = "feed"
    /\ ~Locked(p)
    /\ \E b \in BozoChoices(feeds, passes[p].idx, env),
          mailFails \in MailFailures(env) :
       \E e \in EntriesChoices(passes[p].idx, b, env) :
       \E o \in FetchOutcomes(b, e) :
       \E r \in {FeedBody(feeds, articles, passes[p].idx,
                           [bozo |-> b, entries |-> e, fetchOk |-> o],
                           now, ~mailFails)} :
          PassMoves(p, [passes[p] EXCEPT
              !.pc = IF r.exc = "none" THEN "commit" ELSE "done",
              !.tx = IF r.exc = "none"
                     THEN [open |-> TRUE, feeds |-> r.feeds,
                           articles |-> r.articles]
                     ELSE NoTx,
              !.mails = r.mails,
              !.exc = r.exc,
              !.inserted = @ \cup {<<q.feed_url, q.identifier>> :
                                       q \in r.articles \ articles},
              !.mailed = @ \cup MailKeys(r.mails)])
    /\ UNCHANGED <<feeds, articles>>
    /\ UNCHANGED pass_frame

\* lines 162 and 201
PassCommit(p) ==
    /\ passes[p].pc = "commit"
    /\ feeds' = passes[p].tx.feeds
    /\ articles' = passes[p].tx.articles
    /\ PassMoves(p, [passes[p] EXCEPT
           !.pc = AfterFeed(passes[p].idx, FALSE),
           !.idx = IF passes[p].idx < NumFeeds THEN @ + 1 ELSE @,
           !.tx = NoTx,
           !.mails = <<>>])
    /\ UNCHANGED pass_frame

\* line 203
PassPrune(p) ==
    /\ passes[p].pc = "prune"
    /\ ~Locked(p)
    /\ articles' = prune_old_articles(articles, now)
    /\ PassMoves(p, [passes[p] EXCEPT !.pc = "done"])
    /\ UNCHANGED feeds
    /\ UNCHANGED pass_frame

\* lines 143, 155, 165, 116: the statement waits for the lock longer than the
\* timeout, OperationalError ends the invocation
PassLocked(p) ==
    /\ passes[p].pc \in {"idle", "feed", "prune"}
    /\ Locked(p)
    /\ PassMoves(p, [passes[p] EXCEPT !.pc = "done",
                                      !.exc = "OperationalError"])
    /\ UNCHANGED <<feeds, articles>>
    /\ UNCHANGED pass_frame

NextOverlap ==
    \E p \in 1..2 :
        \/ PassStart(p)
        \/ PassProcessFeed(p)
        \/ PassCommit(p)
        \/ PassPrune(p)
        \/ PassLocked(p)

InitOverlap ==
    /\ InitWith(Env("short", "any"))
    /\ NoCall
    /\ passes = [p \in 1..2 |-> IdlePass]
    /\ met = {}

SpecOverlap == InitOverlap /\ [][NextOverlap]_vars

(* ------------------------- calls of pure functions --------------------- *)
\* the texts over an alphabet, up to a length
Texts(alphabet, n) == UNION {[1..k -> alphabet] : k \in 0..n}
\* the entries that carry some of the keys, each with a text
ItemsOver(keys, texts) == UNION {[ks -> texts] : ks \in SUBSET keys}

\* arguments of matches_filter: title, description, content and keywords
\* over letters of the keyword in both cases
FilterTexts == Texts({"p", "y", "Y"}, MaxTextLen)
FilterItems == ItemsOver({"title", "description"}, FilterTexts)
FilterCalls ==
    [fn : {"matches_filter"}, item : FilterItems,
     fetched_content : FilterTexts \cup {None}, filter_keywords : FilterTexts]

InitFilter ==
    /\ InitWith(Env("articles", "any"))
    /\ NoPasses
    /\ call \in FilterCalls
    /\ ret = <<>>

\* lines 101-110: the call returns
MatchesFilterReturns ==
    /\ ret = <<>>
    /\ ret' = <<matches_filter(call.item, call.fetched_content,
                               call.filter_keywords)>>
    /\ UNCHANGED <<now, pc, idx, feeds, articles, tx, parsed, outbox, exc,
                   env, notified, interrupted, consecFails, trace, completed,
                   call, passes, met>>

SpecFilter == InitFilter /\ [][MatchesFilterReturns]_vars

\* arguments of get_article_identifier: entries with any of the fields
IdKeys == {"guid", "link", "title", "published", "pubdate"}
IdTexts == Texts({"a", "b"}, MaxFieldLen)
IdItems == ItemsOver(IdKeys, IdTexts)

InitIdentifier ==
    /\ InitWith(Env("articles", "any"))
    /\ NoPasses
    /\ call \in [fn : {"get_article_identifier"}, item : IdItems]
    /\ ret = <<>>

\* lines 68-75: the call returns
IdentifierReturns ==
    /\ ret = <<>>
    /\ ret' = <<get_article_identifier(call.item)>>
    /\ UNCHANGED <<now, pc, idx, feeds, articles, tx, parsed, outbox, exc,
                   env, notified, interrupted, consecFails, trace, completed,
                   call, passes, met>>

SpecIdentifier == InitIdentifier /\ [][IdentifierReturns]_vars

TypeOK ==
    /\ now \in Days
    /\ pc \in {"idle", "feed", "commit", "prune"}
    /\ idx \in 1..NumFeeds
    /\ DOMAIN feeds \subseteq FeedUrls
    /\ exc \in {"none", "IntegrityError"}

(* ------------------------- vocabulary of the claims -------------------- *)
\* the feed the loop is at
CurUrl == RSS_FEEDS[idx][1]
CurFilter == RSS_FEEDS[idx][2]
RowsOf(ar, feed_url) == {r \in ar : r.feed_url = feed_url}
IdsOf(ar, feed_url) == {r.identifier : r \in RowsOf(ar, feed_url)}
KeysOf(ar) == {<<r.feed_url, r.identifier>> : r \in ar}
\* the mails of a kind handed to send_email in the current feed step
MailsOfKind(kind) == SelectSeq(outbox, LAMBDA m : m.mail.kind = kind)
\* rows the open connection inserted and has not committed yet
Created == tx.articles \ articles
\* at most one row per (feed_url, identifier)
UniqueKey(ar) ==
    \A r1, r2 \in ar :
        (r1.feed_url = r2.feed_url /\ r1.identifier = r2.identifier) => r1 = r2
\* entry i of the current parse, as the pass meets it
EntryId(i) == get_article_identifier(parsed.entries[i])
EntryContent(i) == FetchedContent(parsed.entries[i], parsed.fetchOk[i])
\* entry i is unseen in the store and passes the filter of the feed
EntryFresh(i) ==
    /\ EntryId(i) \notin IdsOf(articles, CurUrl)
    /\ matches_filter(parsed.entries[i], EntryContent(i), CurFilter)
FreshPositions == {i \in 1..Len(parsed.entries) : EntryFresh(i)}
(* ------------------------------- claims -------------------------------- *)
\* C1: an article (feed URL, identifier) is listed in at most one article
\* notification: a feed step never lists a key that an earlier notification
\* listed.
C1_NotifiedAtMostOnce ==
    [][outbox' # outbox => MailKeys(outbox') \cap notified = {}]_vars

\* C2: when every feed returns the same parse result in every pass, a pass
\* that follows a completed pass creates no Article row and dispatches no
\* article notification.
C2_SecondPassIdle ==
    (completed /\ pc = "commit") =>
        (Created = {} /\ Len(MailsOfKind("articles")) = 0)

\* C3: the articles table, committed or inside the open connection, holds at
\* most one row per (feed URL, identifier), and no insert is attempted on a
\* key already present (no IntegrityError ends a pass).
C3_UniqueAndNoDuplicateInsert ==
    /\ UniqueKey(articles)
    /\ tx.open => UniqueKey(tx.articles)
    /\ exc = "none"

\* C3 witness: one fetch listed the same identifier twice and one row with
\* that identifier was inserted.
C3_Witness ==
    /\ pc = "commit"
    /\ \E i, j \in 1..Len(parsed.entries) :
          /\ i < j
          /\ EntryId(i) = EntryId(j)
          /\ EntryId(i) \in IdsOf(Created, CurUrl)

\* C4: after every completed pass the failure_count of each feed equals the
\* number of consecutive passes whose parse of it failed since its last
\* successful parse or the creation of its row.
C4_FailureCountIsStreak ==
    pc = "idle" =>
        \A u \in DOMAIN feeds : feeds[u].failure_count = consecFails[u]

\* C4 witness: after a completed pass one feed has failed several passes in
\* a row while the other was reset by a successful parse after a failure.
C4_Witness ==
    /\ pc = "idle"
    /\ completed
    /\ \E u \in DOMAIN feeds : feeds[u].failure_count = ERROR_THRESHOLD + 1
    /\ \E u \in DOMAIN feeds :
          feeds[u].failure_count = 0 /\ feeds[u].last_checked > Now0

\* C5: in a feed step exactly one alert is emitted, for that feed, when the
\* parse failed and the resulting failure_count is at or above
\* ERROR_THRESHOLD, and no alert is emitted otherwise.
C5_AlertLevelTriggered ==
    pc = "commit" =>
        LET alerts == MailsOfKind("alert")
        IN  /\ Len(alerts) =
                 IF parsed.bozo
                    /\ tx.feeds[CurUrl].failure_count >= ERROR_THRESHOLD
                 THEN 1 ELSE 0
            /\ \A k \in 1..Len(alerts) :
                  /\ alerts[k].mail.feed_url = CurUrl
                  /\ alerts[k].mail.failure_count
                        = tx.feeds[CurUrl].failure_count

\* C5 witness: an alert on a failed pass after the one that crossed the
\* threshold.
C5_Witness ==
    /\ pc = "commit"
    /\ parsed.bozo
    /\ tx.feeds[CurUrl].failure_count > ERROR_THRESHOLD
    /\ Len(MailsOfKind("alert")) = 1

\* C6: when a pass is interrupted while it processes a feed, the rows it
\* inserted for that feed remain in the committed table, and no article it
\* notified is listed by a notification of a later pass.
C6_InterruptKeepsInsertsAndNotifications ==
    [][/\ (pc = "commit" /\ pc' = "idle") => tx.articles \subseteq articles'
       /\ outbox' # outbox => MailKeys(outbox') \cap interrupted = {}]_vars

\* C7: a pass that ended has processed every configured feed, in order,
\* whether or not a parse failed, and has then run the pruner exactly once.
C7_FailureDoesNotAbortPass ==
    /\ (pc = "idle" /\ trace # <<>>) =>
          /\ Len(trace) = NumFeeds + 1
          /\ \A i \in 1..NumFeeds : trace[i].step = "feed" /\ trace[i].i = i
          /\ trace[NumFeeds + 1].step = "prune"
    /\ pc = "prune" =>
          /\ Len(trace) = NumFeeds
          /\ \A i \in 1..NumFeeds : trace[i].step = "feed" /\ trace[i].i = i

\* C7 witness: a pass ended in which the first feed failed to parse and the
\* second one parsed.
C7_Witness ==
    /\ pc = "idle"
    /\ Len(trace) = NumFeeds + 1
    /\ trace[1].bozo
    /\ ~trace[NumFeeds].bozo
    /\ trace[NumFeeds + 1].step = "prune"

\* the notification of a feed step lists ids, the step created the rows
\* with identifiers createdIds, and fresh are the positions of the entries
\* that are unseen and pass the filter
ListsCreatedInFeedOrder(ids, createdIds, fresh) ==
    /\ {ids[n] : n \in 1..Len(ids)} = createdIds
    /\ Len(ids) = Cardinality(createdIds)
    /\ \A m, n \in 1..Len(ids) :
          m < n =>
            \E i \in fresh :
                /\ EntryId(i) = ids[m]
                /\ \A j \in fresh : EntryId(j) = ids[n] => i < j

NotifiesExactlyCreated(mails, created, fresh) ==
    /\ Len(mails) = IF fresh # {} THEN 1 ELSE 0
    /\ created \subseteq RowsOf(tx.articles, CurUrl)
    /\ Cardinality(created) = Cardinality(IdsOf(created, CurUrl))
    /\ IdsOf(created, CurUrl) = {EntryId(i) : i \in fresh}
    /\ IdsOf(created, CurUrl) \cap IdsOf(articles, CurUrl) = {}
    /\ \A k \in 1..Len(mails) :
          /\ mails[k].mail.feed_url = CurUrl
          /\ ListsCreatedInFeedOrder(mails[k].mail.ids,
                                     IdsOf(created, CurUrl), fresh)

\* C8: when a feed parses, it gets one article notification if some listed
\* entry is unseen and passes the filter and none otherwise; the
\* notification lists, in feed order and once each, exactly the identifiers
\* of the rows created for that feed in this step, none of them seen before.
C8_OneNotificationOfCreatedRows ==
    (pc = "commit" /\ ~parsed.bozo) =>
        NotifiesExactlyCreated(MailsOfKind("articles"), Created, FreshPositions)

\* C8 witness: a parse listed one entry already stored and one unseen entry,
\* and the notification lists the unseen one only.
C8_Witness ==
    /\ pc = "commit"
    /\ ~parsed.bozo
    /\ Len(MailsOfKind("articles")) = 1
    /\ Len(MailsOfKind("articles")[1].mail.ids) = 1
    /\ \E i \in 1..Len(parsed.entries) : EntryId(i) \in IdsOf(articles, CurUrl)

\* C9: a failed dispatch changes no persisted state: the tables the feed
\* step commits are those of the same step with a successful dispatch, the
\* rows of the failed batch are committed, and no key of a failed batch is
\* listed by a later notification.
C9_FailedDispatchLeavesStore ==
    [][/\ (pc = "commit" /\ \E k \in 1..Len(outbox) : ~outbox[k].delivered) =>
             LET good == FeedBody(feeds, articles, idx, parsed, now, TRUE)
             IN  /\ tx.feeds = good.feeds
                 /\ tx.articles = good.articles
                 /\ (feeds' = tx.feeds /\ articles' = tx.articles)
       /\ outbox' # outbox => MailKeys(outbox') \cap notified = {}]_vars

\* C10: the pruner deletes exactly the rows whose pub_date is strictly
\* before now minus the retention window, of whatever feed, and leaves the
\* feeds table unchanged.
C10_PruneDeletesOlderThanCutoff ==
    [][(pc = "prune" /\ pc' = "idle") =>
          /\ articles' \subseteq articles
          /\ \A r \in articles :
                r \in articles' <=> r.pub_date >= now - PRUNE_OLDER_THAN_DAYS
          /\ feeds' = feeds]_vars

\* C10 witness: a pass has ended whose pruner kept a row dated exactly at the
\* cutoff and deleted an older row that had been inserted and notified.
C10_Witness ==
    /\ pc = "idle"
    /\ completed
    /\ \E r \in articles : r.pub_date = now - PRUNE_OLDER_THAN_DAYS
    /\ notified \ KeysOf(articles) # {}
\* C12: matches_filter returns TRUE when the keyword is empty; with a
\* non-empty keyword it returns TRUE exactly when the keyword occurs, without
\* regard to case, inside the title, inside the description or inside the
\* extracted content, an absent field or content counting as empty.
C12_MatchesIffKeywordInAField ==
    ret # <<>> =>
        ret[1] =
          \/ call.filter_keywords = EmptyStr
          \/ Contains(Lower(call.filter_keywords),
                      Lower(Get(call.item, "title", EmptyStr)))
          \/ Contains(Lower(call.filter_keywords),
                      Lower(Get(call.item, "description", EmptyStr)))
          \/ Contains(Lower(call.filter_keywords),
                      Lower(OrElse(call.fetched_content, EmptyStr)))

\* the entry with field k set to v, and the entry without field k
Put(item, k, v) == [x \in DOMAIN item \cup {k} |-> IF x = k THEN v ELSE item[x]]
Drop(item, k) == [x \in DOMAIN item \ {k} |-> item[x]]
\* the entries that differ from item in one field
Variants(item) ==
    {Put(item, k, v) : k \in IdKeys, v \in IdTexts}
        \cup {Drop(item, k) : k \in IdKeys}
HasText(item, k) == k \in DOMAIN item /\ item[k] # EmptyStr
TitleOf(item) == Get(item, "title", EmptyStr)
PubDateOf(item) == Get(item, "published", Get(item, "pubdate", EmptyStr))

FirstListed(i) == \A j \in 1..(i - 1) : EntryId(j) # EntryId(i)
\* the page of entry i was asked for and the extraction failed
FetchFailed(i) ==
    /\ Truthy(Get(parsed.entries[i], "link", <<"No link">>))
    /\ ~parsed.fetchOk[i]
\* the notification of the current feed step lists identifier id with text
ListedWith(id, text) ==
    \E k \in 1..Len(outbox) :
        /\ outbox[k].mail.kind = "articles"
        /\ \E n \in 1..Len(outbox[k].mail.ids) :
              /\ outbox[k].mail.ids[n] = id
              /\ outbox[k].mail.body[n][3] = text

\* C11: an unseen entry that the feed step would persist and notify had the
\* extraction of its page succeeded is persisted and notified when the
\* extraction fails: its row has no content and the notification carries
\* the description the feed supplied.
C11_FetchFailureKeepsIngestion ==
    (pc = "commit" /\ ~parsed.bozo) =>
        \A i \in 1..Len(parsed.entries) :
            (/\ FetchFailed(i)
             /\ FirstListed(i)
             /\ EntryId(i) \notin IdsOf(articles, CurUrl)
             /\ matches_filter(parsed.entries[i],
                               FetchedContent(parsed.entries[i], TRUE),
                               CurFilter))
            => /\ \E r \in Created :
                     /\ r.feed_url = CurUrl
                     /\ r.identifier = EntryId(i)
                     /\ r.fetched_content = None
               /\ ListedWith(EntryId(i),
                             Get(parsed.entries[i], "description",
                                 <<"No description">>))
\* C14: a stored row never changes: in every step each committed row is
\* still there with the same title, link, description, content and
\* publication timestamp, also inside the connection of a feed step that
\* lists its identifier again, unless the step is the pruner's, which
\* removes the row and puts none with its key in its place.
C14_StoredRowImmutable ==
    [][/\ \A r \in articles : \A q \in articles' :
             (q.feed_url = r.feed_url /\ q.identifier = r.identifier) => q = r
       /\ \A r \in articles : r \notin articles' => pc = "prune"
       /\ tx'.open => articles \subseteq tx'.articles]_vars

\* C14 witness: a feed step lists the identifier of a stored row with
\* another title, and the stored row is unchanged in its connection.
C14_Witness ==
    /\ pc = "commit"
    /\ ~parsed.bozo
    /\ \E i \in 1..Len(parsed.entries) : \E r \in articles :
          /\ r.feed_url = CurUrl
          /\ r.identifier = EntryId(i)
          /\ r.title # Get(parsed.entries[i], "title", <<"No title">>)
          /\ matches_filter(parsed.entries[i], EntryContent(i), CurFilter)
          /\ r \in tx.articles
\* C15: the step of a feed whose parse failed commits one change, the
\* failure_count of that feed raised by one: the articles table is the same
\* before and after, no article notification is sent even when the parse
\* carries entries, the last_checked of the feed and both columns of every
\* other feed stay as they were.
C15_FailedParseOnlyCounts ==
    [][(pc = "commit" /\ parsed.bozo /\ pc' # "commit") =>
          /\ tx.articles = articles
          /\ articles' = articles
          /\ Len(MailsOfKind("articles")) = 0
          /\ DOMAIN feeds' = DOMAIN feeds
          /\ feeds'[CurUrl].failure_count = feeds[CurUrl].failure_count + 1
          /\ feeds'[CurUrl].last_checked = feeds[CurUrl].last_checked
          /\ \A u \in DOMAIN feeds : u # CurUrl => feeds'[u] = feeds[u]]_vars

\* C15 witness: a parse failed while it carried an unseen entry that passes
\* the filter of its feed, after a day on which the feed row was written.
C15_Witness ==
    /\ pc = "commit"
    /\ parsed.bozo
    /\ FreshPositions # {}
    /\ Created = {}
    /\ now > feeds[CurUrl].last_checked
\* C16: the step that starts a pass gives every configured feed without a
\* row a row with failure_count 0 and leaves every row it finds as it is,
\* failure_count and last_checked included; no step of the program removes
\* a row of the feeds table.
C16_EnsureFeedsKeepsRows ==
    [][/\ DOMAIN feeds \subseteq DOMAIN feeds'
       /\ (pc = "idle" /\ pc' = "feed") =>
             /\ DOMAIN feeds' = DOMAIN feeds \cup FeedUrls
             /\ \A u \in DOMAIN feeds : feeds'[u] = feeds[u]
             /\ \A u \in FeedUrls \ DOMAIN feeds :
                   feeds'[u].failure_count = 0]_vars

\* C16 witness: a pass has just started, on a later day than the one a feed
\* row with failures on its counter was written.
C16_Witness ==
    /\ pc = "feed"
    /\ idx = 1
    /\ trace = <<>>
    /\ \E u \in DOMAIN feeds :
          feeds[u].failure_count > 0 /\ feeds[u].last_checked < now
\* the entry carries no publication date, or one that is not ISO text
NoUsableDate(item) ==
    \/ DOMAIN item \cap {"published", "pubdate"} = {}
    \/ ~IsIsoFormat(ReplaceZ(Get(item, "published",
                                 Get(item, "pubdate", EmptyStr))))

\* C17: an unseen entry that passes the filter and has no publication date,
\* or one that cannot be parsed, gets a row whose pub_date is the time of the
\* pass and is listed in the notification; the clock does not move during a
\* pass and the pruner that ends the pass keeps every row dated at the time
\* of the pass.
C17_UndatedEntryKeptWithNow ==
    [][/\ (pc = "commit" /\ ~parsed.bozo) =>
             \A i \in FreshPositions :
                 (FirstListed(i) /\ NoUsableDate(parsed.entries[i])) =>
                     /\ \E r \in Created :
                           /\ r.feed_url = CurUrl
                           /\ r.identifier = EntryId(i)
                           /\ r.pub_date = now
                     /\ <<CurUrl, EntryId(i)>> \in MailKeys(outbox)
       /\ pc # "idle" => now' = now
       /\ (pc = "prune" /\ pc' = "idle") =>
             \A r \in articles : r.pub_date = now => r \in articles']_vars

\* C17 witness: a pass has ended; the store holds, dated at the time of the
\* pass, the notified rows of an entry without date and of an entry with an
\* unparseable date, while the pruner removed a notified row.
C17_Witness ==
    /\ pc = "idle"
    /\ trace # <<>>
    /\ \E r \in articles :
          /\ r.identifier = get_article_identifier(ItemUndated)
          /\ r.pub_date = now
          /\ <<r.feed_url, r.identifier>> \in notified
    /\ \E r \in articles :
          /\ r.identifier = get_article_identifier(ItemBare)
          /\ r.pub_date = now
          /\ <<r.feed_url, r.identifier>> \in notified
    /\ notified \ KeysOf(articles) # {}
\* C18: the identifiers of another feed do not count as seen: an entry
\* whose identifier is stored under another feed, from this pass or an
\* earlier one, and which is unseen under the feed of the step and passes
\* its filter, gets a row under the feed of the step and is listed in its
\* notification.
C18_SeenIsFeedScoped ==
    (pc = "commit" /\ ~parsed.bozo) =>
        \A i \in FreshPositions :
            (\E u \in FeedUrls \ {CurUrl} : EntryId(i) \in IdsOf(articles, u))
            => /\ <<CurUrl, EntryId(i)>> \in KeysOf(Created)
               /\ <<CurUrl, EntryId(i)>> \in MailKeys(outbox)

\* C18 witness: the step of the second feed created and notified an entry
\* whose identifier is stored under the first feed.
C18_Witness ==
    /\ pc = "commit"
    /\ idx = 2
    /\ \E i \in FreshPositions :
          /\ EntryId(i) \in IdsOf(articles, RSS_FEEDS[1][1])
          /\ <<CurUrl, EntryId(i)>> \in KeysOf(Created)
          /\ <<CurUrl, EntryId(i)>> \in MailKeys(outbox)

\* no entry listed with the identifier of entry i passes the filter
Rejected(i) ==
    \A j \in 1..Len(parsed.entries) :
        EntryId(j) = EntryId(i) =>
            ~matches_filter(parsed.entries[j], EntryContent(j), CurFilter)

\* C19: an unseen entry that does not pass the filter gets no row and no
\* notification, so the store from which the next pass rebuilds the seen set
\* does not hold it; whether an unseen entry gets a row is decided by the
\* page fetch and the filter of the current pass alone, whatever earlier
\* passes did with the same listing.
C19_RejectedEntryStaysUnseen ==
    (pc = "commit" /\ ~parsed.bozo) =>
        /\ \A i \in 1..Len(parsed.entries) :
              (EntryId(i) \notin IdsOf(articles, CurUrl) /\ Rejected(i)) =>
                  /\ <<CurUrl, EntryId(i)>> \notin KeysOf(tx.articles)
                  /\ <<CurUrl, EntryId(i)>> \notin MailKeys(outbox)
        /\ \A i \in 1..Len(parsed.entries) :
              (EntryId(i) \notin IdsOf(articles, CurUrl) /\ ~Rejected(i)) =>
                  <<CurUrl, EntryId(i)>> \in KeysOf(Created)

\* C19 witness: the filtered feed lists one and the same entry in every
\* pass; a pass has ended without a row for it (its row would not have been
\* pruned on this day), and the current pass, whose page fetch succeeded,
\* creates the row.
C19_Witness ==
    /\ pc = "commit"
    /\ idx = 2
    /\ completed
    /\ now = Now0
    /\ parsed.entries = <<ItemEdge>>
    /\ parsed.fetchOk = <<TRUE>>
    /\ IdsOf(articles, CurUrl) = {}
    /\ <<CurUrl, EntryId(1)>> \in KeysOf(Created)
\* C20: when two invocations overlap on a feed, one being inside its
\* transaction on the feed while the other is at the iteration of the same
\* feed, no row (feed URL, identifier) of that feed is inserted by both and
\* none is listed in article notifications of both.
C20_OverlapNoDoubleInsert ==
    /\ \A k \in passes[1].inserted \cap passes[2].inserted : k[1] \notin met
    /\ \A k \in passes[1].mailed \cap passes[2].mailed : k[1] \notin met
====
